---- MODULE Spec2Model ----
(***************************************************************************)
(* Zone-database reload and AXFR-IN timers of src/knot/server/zones.c.     *)
(*                                                                         *)
(* The heap is modelled by three partial functions (zones, events, dbs)    *)
(* whose domains are the allocated objects.  An object that nothing can    *)
(* reach any more is dropped from the domain when a reload has returned,   *)
(* so an address is only ever reused when no pointer to it is left.        *)
(***************************************************************************)
EXTENDS Integers, Sequences, FiniteSets, TLC

\* ------------------------------------------------------------------ bounds
MaxZones == 3        \* zone objects allocated at the same time
MaxEvents == 3       \* scheduler events allocated at the same time
MaxDbs == 3          \* zone databases allocated at the same time
MaxMtime == 3        \* file modification times are 1..MaxMtime
MaxConf == 2         \* zones in one configuration
MaxRcuNest == 1      \* read-side nesting the reloader may leave behind
MaxQueryId == 0      \* wire IDs of SOA queries are 0..MaxQueryId
MaxTime == 60000     \* the clock is followed up to this time (ms)

\* --------------------------------------------------------------- constants
NULL == 0

ZoneIds == 1..MaxZones
EventIds == 1..MaxEvents
DbIds == 1..MaxDbs
Mtimes == 1..MaxMtime
QueryIds == 0..MaxQueryId

\* Zone names the configuration can carry; BadName is one that
\* dnslib_dname_new_from_str() rejects.  The files of the names in
\* EditedNames change while the server runs.
ZoneNames == {"a.", "b."}
EditedNames == {"a."}
BadName == "a..b"

\* SOA RDATA of the compiled zones (seconds): zone "a." has short timers,
\* every other zone the ones of Soa.
Soa == [refresh |-> 86400, retry |-> 7200, expire |-> 691200]
SoaShort == [refresh |-> 10, retry |-> 5, expire |-> 30]
ZoneSoa(name) == IF name = "a." THEN SoaShort ELSE Soa

\* conf_iface_t of the configured remotes.  RBad has an address that
\* does not resolve.
R1 == [family |-> "AF_INET", address |-> "10.0.0.1", port |-> 53]
R2 == [family |-> "AF_INET6", address |-> "::1", port |-> 53]
RBad == [family |-> "AF_INET", address |-> "10.0.0.999", port |-> 53]
Resolvable == {"10.0.0.1", "::1"}

\* ns->server->ifaces: one UDP socket, IPv4.
ServerIfaces == <<[type |-> "AF_INET", fd |-> 3]>>

\* The remote lists conf_zone_t.acl may carry: no remote at all, one
\* master with three more ACLs, and two masters.
NoRemotes ==
  [xfr_in |-> << >>, xfr_out |-> << >>, notify_in |-> << >>,
   notify_out |-> << >>]
AclChoices ==
  { NoRemotes,
    [xfr_in |-> <<R1>>, xfr_out |-> <<R1>>, notify_in |-> <<R2>>,
     notify_out |-> <<RBad, R1>>],
    [xfr_in |-> <<R2, R1>>, xfr_out |-> << >>, notify_in |-> << >>,
     notify_out |-> << >>] }

\* conf_zone_t.  file is the zone's source file, db its compiled file; both
\* are keyed by the zone's name.  NoPath stands for a NULL db.
NoPath == ""
ConfZones ==
  { [name |-> n, db |-> "db", acl |-> a] : n \in ZoneNames, a \in AclChoices }
  \cup { [name |-> n, db |-> NoPath, acl |-> NoRemotes] : n \in ZoneNames }
  \cup { [name |-> BadName, db |-> "db", acl |-> NoRemotes] }

SeqsUpTo(S, k) == UNION { [1..m -> S] : m \in 0..k }

\* conf->zones: a list of descriptors, no name twice.  The two zone names
\* are interchangeable, so the lists that name both name "a." first.
Confs ==
  { c \in SeqsUpTo(ConfZones, MaxConf) :
      \A p, q \in 1..Len(c) :
         p < q => /\ c[p].name # c[q].name
                  /\ ~(c[p].name = "b." /\ c[q].name = "a.") }

\* ------------------------------------------------------------------- state
VARIABLES
  zones,        \* allocated zone objects: zone id -> dnslib_zone_t
  events,       \* events live in the scheduler: event id -> event_t
  dbs,          \* allocated zone databases: db id -> (name -> zone id | NULL)
  ns_zone_db,   \* ns->zone_db
  src_mtime,    \* st_mtime of each zone's source file
  db_file,      \* each zone's compiled file: its state and st_mtime
  pc,           \* where zones_update_db_from_config is
  conf,         \* conf->zones of the running (or last) reload
  idx,          \* the list position zones_insert_zones is at
  db_old,       \* *db_old
  db_new,       \* db_new
  inserted,     \* inserted
  ret,          \* what the last call returned
  rcu_nest,     \* rcu_read_lock() nesting of the reloader
  reader_db,    \* the database a query thread took from ns->zone_db
  reader_view,  \* what find_zone returned on it when the thread entered
  pre_db,       \* history: the old database as it was when the reload began
  carried,      \* history: names this reload copied from old to new
  loaded,       \* history: names this reload called zones_load_zone for
  stable,       \* history: the last reload returned OK and no file changed
                \*          since it began
  idem,         \* history: this reload repeats the previous one (same
                \*          configuration, files untouched in between)
  now,          \* the scheduler's clock (ms), where time is followed
  log,          \* history: the callbacks the scheduler ran on the clock
  running,      \* the callback the event thread is in: its e and its zone
  acl_deleted   \* history: zones whose ACLs this reload has deleted

vars == <<zones, events, dbs, ns_zone_db, src_mtime, db_file, pc, conf, idx,
          db_old, db_new, inserted, ret, rcu_nest, reader_db, reader_view,
          pre_db, carried, loaded, stable, idem, now, log, running,
          acl_deleted>>

\* The clock and the record of what ran on it.
clock == <<now, log>>

\* ----------------------------------------------------------------- helpers
Min(S) == CHOOSE x \in S : \A y \in S : x <= y

EmptyDb == [n \in ZoneNames |-> NULL]

\* The event thread is in no callback.
NoRun == [e |-> NULL, zone |-> NULL]

\* Function f with key k bound to v (k may be new), and with k dropped.
Put(f, k, v) == [x \in (DOMAIN f) \cup {k} |-> IF x = k THEN v ELSE f[x]]
Drop(f, K) == [x \in (DOMAIN f) \ K |-> f[x]]

\* Events of one kind that are live in the scheduler with zone z as data.
LiveEvents(evs, z, kind) ==
  { e \in DOMAIN evs : evs[e].data = z /\ evs[e].kind = kind }

\* --------------------------------------------------- values of the objects
\* sockaddr_t after sockaddr_init(addr, -1): ptr is NULL.
NoAddr == [ptr |-> NULL, family |-> "none", address |-> "", port |-> 0]

\* acl_t *: NULL, or an ACL with default action ACL_DENY and ACCEPT rules.
NoAcl == [alloc |-> FALSE, rules |-> << >>]

\* A compiled file that cannot be opened / cannot be decoded / decodes.
FileMissing == [state |-> "missing", mtime |-> 1]
FileCorrupt == [state |-> "corrupt", mtime |-> 1]
FileOk(t) == [state |-> "ok", mtime |-> t]
DbFiles == {FileMissing, FileCorrupt} \cup { FileOk(t) : t \in Mtimes }

\* dnslib_zone_t as the loader hands it over.
NewZoneRec(name, version) ==
  [name |-> name, version |-> version,
   acl |-> [xfr_in |-> NoAcl, xfr_out |-> NoAcl,
            notify_in |-> NoAcl, notify_out |-> NoAcl],
   ifaces |-> NULL, master |-> NoAddr,
   timer |-> NULL, expire |-> NULL, next_id |-> -1]

\* ------------------------------------------------------- library functions
\* dnslib_dname_new_from_str: the domain name; NoDname stands for the NULL
\* it returns for a malformed name.
NoDname == ""
dnslib_dname_new_from_str(name) ==
  IF name \in ZoneNames THEN name ELSE NoDname

\* dnslib_zonedb_find_zone on the contents dbc of a database.
dnslib_zonedb_find_zone(dbc, name) == dbc[name]

\* dnslib_zonedb_add_zone: keys are unique, a second zone of a name is
\* refused.
dnslib_zonedb_add_zone(dbc, name, zone) ==
  IF dbc[name] # NULL THEN [ret |-> "KNOT_ERROR", db |-> dbc]
  ELSE [ret |-> "KNOT_EOK", db |-> [dbc EXCEPT ![name] = zone]]

\* dnslib_zonedb_remove_zone(db, name, 0): the name is taken out, the zone
\* is not freed.
dnslib_zonedb_remove_zone(dbc, name) == [dbc EXCEPT ![name] = NULL]

\* sockaddr_set: fills the address from (family, address, port) and returns
\* inet_pton()'s verdict on the address.
sockaddr_set(family, address, port) ==
  [ret |-> IF address \in Resolvable THEN 1 ELSE 0,
   addr |-> [ptr |-> 1, family |-> family, address |-> address,
             port |-> port]]

\* evsched_schedule_cb: a new event in the scheduler, due in ms.
NewEvent(evs) == Min(EventIds \ DOMAIN evs)
evsched_schedule_cb(evs, kind, data, ms) ==
  Put(evs, NewEvent(evs), [kind |-> kind, data |-> data, ms |-> ms])

\* evsched_schedule: event e is scheduled again, due in ms.
evsched_schedule(evs, e, ms) == [evs EXCEPT ![e].ms = ms]

\* evsched_cancel followed by evsched_event_free.
evsched_cancel_free(evs, e) == Drop(evs, {e})

\* ------------------------------------------------------ SOA timers (25-73)
\* Line 39 without the conversion: the timer is returned in seconds.
zones_soa_timer_seconds(zone, field) == ZoneSoa(zone.name)[field]

\* zone is the dnslib_zone_t.  The SOA values used here keep ret * 1000
\* below 2^32: no wrap-around.
zones_soa_timer(zone, field) == ZoneSoa(zone.name)[field] * 1000
zones_soa_refresh(zone) == zones_soa_timer(zone, "refresh")
\* Line 61 with the selector of line 50: RETRY is read from REFRESH.
zones_soa_retry_from_refresh(zone) == zones_soa_timer(zone, "refresh")
zones_soa_retry(zone) == zones_soa_timer(zone, "retry")
zones_soa_expire(zone) == zones_soa_timer(zone, "expire")

\* ------------------------------------------------ AXFR-IN timers (78-198)
\* Line 84 with the test always false: the POLL timer is never cancelled.
timer_pending_never(zone) == FALSE

\* Line 84: the zone references a POLL timer.
timer_pending(zone) == zone.timer # NULL

\* Lines 83-96 of zones_axfrin_expire(e), zone being what line 81 read
\* from e->data, on the heap (zs, evs): the new heap.
zones_axfrin_expire_body(zs, evs, e, zone) ==
  LET pending == timer_pending(zs[zone])
      evs1 == IF pending
              THEN evsched_cancel_free(evs, zs[zone].timer) ELSE evs
      evs2 == evsched_cancel_free(evs1, e)
  IN [zones |-> [zs EXCEPT
                   ![zone].timer = IF pending THEN NULL ELSE zs[zone].timer,
                   ![zone].expire = NULL,
                   ![zone].next_id = -1],
      events |-> evs2]

\* zones_axfrin_expire(e) on the heap (zs, evs): the new heap.
zones_axfrin_expire(zs, evs, e) ==
  zones_axfrin_expire_body(zs, evs, e, evs[e].data)

\* The socket zones_axfrin_poll picks: the first interface of the master's
\* family, -1 when there is none.
poll_socket(ifaces, master) ==
  LET hits == { k \in 1..Len(ifaces) : ifaces[k].type = master.family }
  IN IF hits = {} THEN -1 ELSE ifaces[Min(hits)].fd

\* Line 159 without its condition: every run arms an EXPIRE timer.
expire_unarmed_or_not(zone) == TRUE

\* Line 159: the zone has no EXPIRE timer.
expire_unarmed(zone) == zone.expire = NULL

\* zones_axfrin_poll(e).  create_ok: xfrin_create_soa_query succeeded;
\* sent: sendto wrote the whole query; id: the query's wire ID.
zones_axfrin_poll(zs, evs, e, create_ok, sent, id) ==
  LET zone == evs[e].data
      sock == IF create_ok /\ zs[zone].ifaces # NULL
              THEN poll_socket(ServerIfaces, zs[zone].master) ELSE -1
      zs1 == IF sock > -1 /\ sent
             THEN [zs EXCEPT ![zone].next_id = id] ELSE zs
      arm == expire_unarmed(zs1[zone])
      evs1 == IF arm
              THEN evsched_schedule_cb(evs, "expire", zone,
                                       zones_soa_expire(zs[zone]))
              ELSE evs
      zs2 == IF arm THEN [zs1 EXCEPT ![zone].expire = NewEvent(evs)] ELSE zs1
  IN [zones |-> zs2,
      events |-> evsched_schedule(evs1, e, zones_soa_retry(zs[zone]))]

\* zones_timers_update(zone, sch).
zones_timers_update(zs, evs, zone) ==
  IF zs[zone].master.ptr = NULL THEN [zones |-> zs, events |-> evs]
  ELSE LET evs1 == evsched_schedule_cb(evs, "poll", zone,
                                       zones_soa_refresh(zs[zone]))
           zs1 == [zs EXCEPT ![zone].timer = NewEvent(evs)]
       IN IF zs1[zone].expire # NULL
          THEN [zones |-> [zs1 EXCEPT ![zone].expire = NULL],
                events |-> evsched_cancel_free(evs1, zs1[zone].expire)]
          ELSE [zones |-> zs1, events |-> evs1]

\* ------------------------------------------------------- ACLs (210-242)
\* zones_set_acl(&acl, acl_list): the old ACL is deleted and a new one, with
\* default ACL_DENY, accepts every remote whose address sockaddr_set
\* resolves.
zones_set_acl(acl, acl_list) ==
  LET ok(r) == sockaddr_set(r.family, r.address, r.port).ret > 0
      rule(r) == sockaddr_set(r.family, r.address, r.port).addr
      kept == SelectSeq(acl_list, ok)
  IN [alloc |-> TRUE, rules |-> [k \in 1..Len(kept) |-> rule(kept[k])]]

\* acl_delete(&acl): the ACL is freed, when there is one.
acl_delete(acl) == acl.alloc

\* The ACLs of a zone that the calls of lines 397-399 delete at line 217.
zones_acls_deleted(zone) ==
  { f \in {"xfr_out", "notify_in", "notify_out"} : acl_delete(zone.acl[f]) }

\* acl_match: the addresses the ACL accepts; a NULL ACL accepts none.
acl_accepts(acl) ==
  IF acl.alloc THEN { acl.rules[k].address : k \in 1..Len(acl.rules) }
  ELSE {}

\* ------------------------------------------------- Zone Loader (256-309)
NewZone(zs) == Min(ZoneIds \ DOMAIN zs)

\* Line 265 without its check: a file that cannot be opened is read on.
zload_open_never_failed(file) == FALSE

\* Line 265: dnslib_zload_open returned NULL.
zload_open_failed(file) == file.state = "missing"

\* zones_load_zone(zonedb, zone_name, source, filename) on the zones zs and
\* the contents dbc of zonedb; file is the compiled file behind filename.
\* The source-path and needs-update checks only log a warning.
zones_load_zone(zs, dbc, zone_name, filename, file) ==
  LET fail(code) == [ret |-> code, zones |-> zs, db |-> dbc]
  IN IF filename = NoPath THEN fail("KNOT_EINVAL")
     ELSE IF zload_open_failed(file) THEN fail("KNOT_EZONEINVAL")
     ELSE IF file.state = "corrupt" THEN fail("KNOT_EZONEINVAL")
     ELSE LET zone == NewZone(zs)
              add == dnslib_zonedb_add_zone(dbc, zone_name, zone)
          IN IF add.ret # "KNOT_EOK" THEN fail("KNOT_EZONEINVAL")
             ELSE [ret |-> "KNOT_EOK",
                   zones |-> Put(zs, zone, NewZoneRec(zone_name, file.mtime)),
                   db |-> add.db]

\* ----------------------------------------------- Reconciler (325-422)
\* Line 357 with <= for <: a zone as new as its source file counts as old.
zone_is_stale_or_equal(version, st_mtime) == version <= st_mtime

\* Line 357: the loaded zone is older than its source file.
zone_is_stale(version, st_mtime) == version < st_mtime

\* Lines 404-413 with TAIL for HEAD: the master is taken from the last rule.
zone_master_of_tail(xfr_in) ==
  IF xfr_in # << >>
  THEN sockaddr_set(xfr_in[Len(xfr_in)].family, xfr_in[Len(xfr_in)].address,
                    xfr_in[Len(xfr_in)].port).addr
  ELSE NoAddr

\* Lines 404-413: the master is the head of the configured xfr_in list.
zone_master(xfr_in) ==
  IF xfr_in # << >>
  THEN sockaddr_set(Head(xfr_in).family, Head(xfr_in).address,
                    Head(xfr_in).port).addr
  ELSE NoAddr

\* Lines 395-417: ACLs, interfaces, master and timers of the zone obtained
\* for descriptor z.
zones_update_zone(zs, evs, zone, z) ==
  LET zs1 == [zs EXCEPT
                ![zone].acl.xfr_out =
                    zones_set_acl(zs[zone].acl.xfr_out, z.acl.xfr_out),
                ![zone].acl.notify_in =
                    zones_set_acl(zs[zone].acl.notify_in, z.acl.notify_in),
                ![zone].acl.notify_out =
                    zones_set_acl(zs[zone].acl.notify_out, z.acl.notify_out),
                ![zone].ifaces = 1,
                ![zone].master = zone_master(z.acl.xfr_in)]
  IN zones_timers_update(zs1, evs, zone)

\* Lines 381-392 without the call of line 384: the zone found in the old
\* database is counted but never added to the new one.
zones_carry_over_lost(dbc, zone_name, zone) ==
  [ret |-> "KNOT_EOK", db |-> dbc]

\* Lines 381-392: the zone found in the old database goes into the new one.
zones_carry_over(dbc, zone_name, zone) ==
  dnslib_zonedb_add_zone(dbc, zone_name, zone)

\* Lines 372 and 388 outside their else branches: the turn is counted
\* whether or not the zone went into the new database.
count_inserted_always(ins, ok) == ins + 1

\* Lines 372 and 388: ++inserted, once the zone is in the new database.
count_inserted(ins, ok) == IF ok THEN ins + 1 ELSE ins

\* One turn of the loop of zones_insert_zones, for descriptor z whose name
\* converted to zone_name: the new zones, events, contents of db_new and
\* count, and what the turn decided.
zones_insert_zone(zs, evs, dbo, dbn, ins, z, zone_name, st_mtime, file) ==
  LET found == dnslib_zonedb_find_zone(dbo, zone_name)
      reload == IF found # NULL
                THEN zone_is_stale(zs[found].version, st_mtime) ELSE TRUE
      ld == zones_load_zone(zs, dbn, z.name, z.db, file)
      cp == zones_carry_over(dbn, zone_name, found)
      ok == IF reload THEN ld.ret = "KNOT_EOK" ELSE cp.ret = "KNOT_EOK"
      zs1 == IF reload THEN ld.zones ELSE zs
      dbn1 == IF reload THEN ld.db ELSE cp.db
      zone == IF reload /\ ok
              THEN dnslib_zonedb_find_zone(dbn1, zone_name) ELSE found
      upd == IF zone # NULL THEN zones_update_zone(zs1, evs, zone, z)
             ELSE [zones |-> zs1, events |-> evs]
  IN [zones |-> upd.zones, events |-> upd.events, db |-> dbn1,
      inserted |-> count_inserted(ins, ok),
      reload |-> reload, ok |-> ok, zone |-> zone,
      acl_deleted |-> IF zone # NULL /\ zones_acls_deleted(zs1[zone]) # {}
                      THEN {zone} ELSE {}]

\* What the turn allocates: it is taken only when the heap has the room.
insert_needs_zone(zs, dbo, z, st_mtime, file) ==
  LET found == dbo[z.name]
  IN /\ found = NULL \/ zone_is_stale(zs[found].version, st_mtime)
     /\ z.db # NoPath /\ file.state = "ok"
insert_needs_event(z) == z.acl.xfr_in # << >>

\* -------------------------------------------- zones_remove_zones (437-459)
\* The loop from list position k on: the contents of db_old it leaves and
\* what it returns.
RECURSIVE zones_remove_zones(_, _, _)
zones_remove_zones(zone_conf, dbc, k) ==
  IF k > Len(zone_conf) THEN [ret |-> "KNOT_EOK", db |-> dbc]
  ELSE LET zone_name == dnslib_dname_new_from_str(zone_conf[k].name)
       IN IF zone_name = NoDname THEN [ret |-> "KNOT_ERROR", db |-> dbc]
          ELSE zones_remove_zones(zone_conf,
                                  dnslib_zonedb_remove_zone(dbc, zone_name),
                                  k + 1)

\* ----------------------------------- zones_update_db_from_config (465-528)
\* Lines 476-488 with the exchange done before the checks: a failing call
\* has taken the database out of ns->zone_db.
update_prologue_exchanged(cur, fresh) ==
  IF cur = NULL \/ fresh = NULL
  THEN [ret |-> "KNOT_ERROR", db_old |-> cur, db_new |-> NULL,
        zone_db |-> NULL]
  ELSE [ret |-> "KNOT_EOK", db_old |-> cur, db_new |-> fresh, zone_db |-> cur]

\* Lines 476-488: *db_old takes ns->zone_db; the call fails when that is
\* NULL or when dnslib_zonedb_new() returned NULL.  zone_db is ns->zone_db
\* as these lines leave it.
update_prologue(cur, fresh) ==
  IF cur = NULL \/ fresh = NULL
  THEN [ret |-> "KNOT_ERROR", db_old |-> cur, db_new |-> NULL, zone_db |-> cur]
  ELSE [ret |-> "KNOT_EOK", db_old |-> cur, db_new |-> fresh, zone_db |-> cur]

\* Line 506 with the operands the wrong way round: ns->zone_db keeps the
\* old database.
rcu_xchg_pointer_kept(cur, new) == cur

\* Line 506: rcu_xchg_pointer(&ns->zone_db, db_new).
rcu_xchg_pointer(cur, new) == new

\* Databases a pointer still leads to once a reload has returned (the
\* database handed back is the caller's to free), and the zones such a
\* database, an event or a reader still leads to.
LiveDbs == ({ns_zone_db, reader_db} \ {NULL}) \cap DOMAIN dbs
LiveZones ==
  ({ dbs[d][n] : d \in LiveDbs, n \in ZoneNames }
     \cup { events[e].data : e \in DOMAIN events }
     \cup { reader_view[n] : n \in ZoneNames }
     \cup {running.zone}) \ {NULL}

Init ==
  /\ ns_zone_db \in {NULL, 1}
  /\ dbs = IF ns_zone_db = NULL THEN << >> ELSE <<EmptyDb>>
  /\ zones = << >>
  /\ events = << >>
  /\ src_mtime = [n \in ZoneNames |-> 1]
  /\ db_file = [n \in ZoneNames |-> FileOk(1)]
  /\ pc = "idle"
  /\ conf = << >>
  /\ idx = 1
  /\ db_old = NULL
  /\ db_new = NULL
  /\ inserted = 0
  /\ ret = "none"
  /\ rcu_nest = 0
  /\ reader_db = NULL
  /\ reader_view = EmptyDb
  /\ pre_db = EmptyDb
  /\ carried = {}
  /\ loaded = {}
  /\ stable = FALSE
  /\ idem = FALSE
  /\ now = 0
  /\ log = << >>
  /\ running = NoRun
  /\ acl_deleted = {}

\* Lines 473-490, for configuration c (conf and ns are never NULL here);
\* db_ok: dnslib_zonedb_new() succeeds.
UpdateBegin(c, db_ok) ==
  /\ pc = "idle"
  /\ LET fresh == IF db_ok /\ DbIds \ DOMAIN dbs # {}
                  THEN Min(DbIds \ DOMAIN dbs) ELSE NULL
         p == update_prologue(ns_zone_db, fresh)
     IN /\ (p.ret # "KNOT_EOK" \/ \E k \in 1..Len(c) : c[k].name = BadName)
             => rcu_nest < MaxRcuNest
        /\ rcu_nest' = rcu_nest + 1
        /\ db_old' = p.db_old
        /\ ns_zone_db' = p.zone_db
        /\ IF p.ret # "KNOT_EOK"
           THEN /\ ret' = p.ret
                /\ UNCHANGED <<zones, events, dbs, src_mtime, db_file, pc,
                               conf, idx, db_new, inserted, reader_db,
                               reader_view, pre_db, carried, loaded, stable,
                               idem>>
           ELSE /\ pc' = "insert"
                /\ conf' = c
                /\ idx' = 1
                /\ inserted' = 0
                /\ db_new' = p.db_new
                /\ dbs' = Put(dbs, p.db_new, EmptyDb)
                /\ pre_db' = dbs[ns_zone_db]
                /\ carried' = {}
                /\ loaded' = {}
                /\ idem' = (stable /\ c = conf)
                /\ stable' = TRUE
                /\ ret' = "none"
                /\ UNCHANGED <<zones, events, src_mtime, db_file, reader_db,
                               reader_view>>
  /\ UNCHANGED <<clock, running, acl_deleted>>

\* Lines 333-420: one turn of the loop of zones_insert_zones.
InsertZone ==
  /\ pc = "insert"
  /\ idx <= Len(conf)
  /\ LET z == conf[idx]
         zone_name == dnslib_dname_new_from_str(z.name)
     IN IF zone_name = NoDname
        THEN /\ idx' = Len(conf) + 1
             /\ UNCHANGED <<zones, events, dbs, inserted, carried, loaded,
                            acl_deleted>>
        ELSE LET r == zones_insert_zone(zones, events, dbs[db_old],
                                        dbs[db_new], inserted, z, zone_name,
                                        src_mtime[z.name], db_file[z.name])
             IN /\ insert_needs_zone(zones, dbs[db_old], z, src_mtime[z.name],
                                     db_file[z.name])
                     => ZoneIds \ DOMAIN zones # {}
                /\ insert_needs_event(z) => EventIds \ DOMAIN events # {}
                /\ idx' = idx + 1
                /\ zones' = r.zones
                /\ events' = r.events
                /\ dbs' = [dbs EXCEPT ![db_new] = r.db]
                /\ inserted' = r.inserted
                /\ loaded' = IF r.reload THEN loaded \cup {z.name} ELSE loaded
                /\ carried' = IF ~r.reload /\ r.ok
                              THEN carried \cup {z.name} ELSE carried
                /\ acl_deleted' = acl_deleted \cup r.acl_deleted
  /\ UNCHANGED <<ns_zone_db, src_mtime, db_file, pc, conf, db_old, db_new,
                 ret, rcu_nest, reader_db, reader_view, pre_db, stable, idem>>
  /\ UNCHANGED <<clock, running>>

\* Lines 495-506: the loop is over, the databases are switched.
Switch ==
  /\ pc = "insert"
  /\ idx > Len(conf)
  /\ ns_zone_db' = rcu_xchg_pointer(ns_zone_db, db_new)
  /\ pc' = "switched"
  /\ UNCHANGED <<zones, events, dbs, src_mtime, db_file, conf, idx, db_old,
                 db_new, inserted, ret, rcu_nest, reader_db, reader_view,
                 pre_db, carried, loaded, stable, idem>>
  /\ UNCHANGED <<clock, running, acl_deleted>>

\* Lines 511-527: the old database is pruned and the call returns ret.
RemoveZones ==
  /\ pc = "switched"
  /\ LET r == zones_remove_zones(conf, dbs[db_old], 1)
     IN /\ dbs' = [dbs EXCEPT ![db_old] = r.db]
        /\ ret' = r.ret
        /\ rcu_nest' = IF r.ret = "KNOT_EOK" THEN rcu_nest - 1 ELSE rcu_nest
        /\ stable' = (stable /\ r.ret = "KNOT_EOK")
  /\ pc' = "done"
  /\ UNCHANGED <<zones, events, ns_zone_db, src_mtime, db_file, conf, idx,
                 db_old, db_new, inserted, reader_db, reader_view, pre_db,
                 carried, loaded, idem>>
  /\ UNCHANGED <<clock, running, acl_deleted>>

\* The caller has the result.  The locals of the call are gone, and so is
\* every object that no pointer leads to any more: the database handed back
\* once no reader is in it, and the zones that neither a database, nor an
\* event, nor a reader refers to.
Return ==
  /\ pc = "done"
  /\ pc' = "idle"
  /\ idx' = 1
  /\ inserted' = 0
  /\ db_new' = NULL
  /\ db_old' = NULL
  /\ dbs' = Drop(dbs, (DOMAIN dbs) \ LiveDbs)
  /\ zones' = Drop(zones, (DOMAIN zones) \ LiveZones)
  /\ pre_db' = EmptyDb
  /\ carried' = {}
  /\ loaded' = {}
  /\ idem' = FALSE
  /\ acl_deleted' = {}
  /\ UNCHANGED <<events, ns_zone_db, src_mtime, db_file, conf, ret, rcu_nest,
                 reader_db, reader_view, stable>>
  /\ UNCHANGED <<clock, running>>

\* zones_axfrin_poll runs for POLL event e.
PollStep(e, create_ok, sent, id) ==
  /\ running = NoRun
  /\ e \in DOMAIN events
  /\ events[e].kind = "poll"
  /\ zones[events[e].data].expire = NULL => EventIds \ DOMAIN events # {}
  /\ LET r == zones_axfrin_poll(zones, events, e, create_ok, sent, id)
     IN zones' = r.zones /\ events' = r.events
  /\ UNCHANGED <<dbs, ns_zone_db, src_mtime, db_file, pc, conf, idx, db_old,
                 db_new, inserted, ret, rcu_nest, reader_db, reader_view,
                 pre_db, carried, loaded, stable, idem, running, acl_deleted>>

\* zones_axfrin_expire runs for EXPIRE event e.
ExpireStep(e) ==
  /\ running = NoRun
  /\ e \in DOMAIN events
  /\ events[e].kind = "expire"
  /\ LET r == zones_axfrin_expire(zones, events, e)
     IN zones' = r.zones /\ events' = r.events
  /\ UNCHANGED <<dbs, ns_zone_db, src_mtime, db_file, pc, conf, idx, db_old,
                 db_new, inserted, ret, rcu_nest, reader_db, reader_view,
                 pre_db, carried, loaded, stable, idem, running, acl_deleted>>

\* The scheduler runs the callback of an event, whenever that may be.
PollFire(e, create_ok, sent, id) ==
  PollStep(e, create_ok, sent, id) /\ UNCHANGED clock
ExpireFire(e) == ExpireStep(e) /\ UNCHANGED clock

\* The event thread enters zones_axfrin_expire for EXPIRE event e, which it
\* has taken from the scheduler: lines 78-81.
ExpireEnter(e) ==
  /\ running = NoRun
  /\ e \in DOMAIN events
  /\ events[e].kind = "expire"
  /\ running' = [e |-> e, zone |-> events[e].data]
  /\ UNCHANGED <<zones, events, dbs, ns_zone_db, src_mtime, db_file, pc, conf,
                 idx, db_old, db_new, inserted, ret, rcu_nest, reader_db,
                 reader_view, pre_db, carried, loaded, stable, idem, clock,
                 acl_deleted>>

\* The event thread goes on in zones_axfrin_expire: lines 83-96.
ExpireRun ==
  /\ running # NoRun
  /\ LET r == zones_axfrin_expire_body(zones, events, running.e, running.zone)
     IN zones' = r.zones /\ events' = r.events
  /\ running' = NoRun
  /\ UNCHANGED <<dbs, ns_zone_db, src_mtime, db_file, pc, conf, idx, db_old,
                 db_new, inserted, ret, rcu_nest, reader_db, reader_view,
                 pre_db, carried, loaded, stable, idem, clock, acl_deleted>>

\* Time passes until the next event is due.
Elapse ==
  /\ DOMAIN events # {}
  /\ \A e \in DOMAIN events : events[e].ms > 0
  /\ LET d == Min({ events[e].ms : e \in DOMAIN events })
     IN /\ now + d <= MaxTime
        /\ events' = [e \in DOMAIN events |->
                        [events[e] EXCEPT !.ms = events[e].ms - d]]
        /\ now' = now + d
  /\ UNCHANGED <<zones, dbs, ns_zone_db, src_mtime, db_file, pc, conf, idx,
                 db_old, db_new, inserted, ret, rcu_nest, reader_db,
                 reader_view, pre_db, carried, loaded, stable, idem, log,
                 running, acl_deleted>>

\* The scheduler runs the callback of an event that is due, on the clock.
PollDue(e, create_ok, sent, id) ==
  /\ e \in DOMAIN events
  /\ events[e].ms = 0
  /\ PollStep(e, create_ok, sent, id)
  /\ log' = Append(log, [kind |-> "poll", e |-> e, at |-> now,
                         create_ok |-> create_ok, sent |-> sent, id |-> id])
  /\ UNCHANGED now
ExpireDue(e) ==
  /\ e \in DOMAIN events
  /\ events[e].ms = 0
  /\ ExpireStep(e)
  /\ log' = Append(log, [kind |-> "expire", e |-> e, at |-> now,
                         create_ok |-> FALSE, sent |-> FALSE, id |-> 0])
  /\ UNCHANGED now

\* A query thread enters its read-side critical section and takes
\* ns->zone_db.
ReaderEnter ==
  /\ reader_db = NULL
  /\ ns_zone_db # NULL
  /\ reader_db' = ns_zone_db
  /\ reader_view' = dbs[ns_zone_db]
  /\ UNCHANGED <<zones, events, dbs, ns_zone_db, src_mtime, db_file, pc, conf,
                 idx, db_old, db_new, inserted, ret, rcu_nest, pre_db,
                 carried, loaded, stable, idem>>
  /\ UNCHANGED <<clock, running, acl_deleted>>

\* The query thread leaves its critical section.
ReaderExit ==
  /\ reader_db # NULL
  /\ reader_db' = NULL
  /\ reader_view' = EmptyDb
  /\ UNCHANGED <<zones, events, dbs, ns_zone_db, src_mtime, db_file, pc, conf,
                 idx, db_old, db_new, inserted, ret, rcu_nest, pre_db,
                 carried, loaded, stable, idem>>
  /\ UNCHANGED <<clock, running, acl_deleted>>

\* The operator edits a zone's source file.
TouchSource(n, t) ==
  /\ src_mtime[n] # t
  /\ src_mtime' = [src_mtime EXCEPT ![n] = t]
  /\ stable' = FALSE
  /\ UNCHANGED <<zones, events, dbs, ns_zone_db, db_file, pc, conf, idx,
                 db_old, db_new, inserted, ret, rcu_nest, reader_db,
                 reader_view, pre_db, carried, loaded, idem>>
  /\ UNCHANGED <<clock, running, acl_deleted>>

\* The operator compiles, replaces or removes a zone's compiled file.
WriteCompiled(n, f) ==
  /\ db_file[n] # f
  /\ db_file' = [db_file EXCEPT ![n] = f]
  /\ stable' = FALSE
  /\ UNCHANGED <<zones, events, dbs, ns_zone_db, src_mtime, pc, conf, idx,
                 db_old, db_new, inserted, ret, rcu_nest, reader_db,
                 reader_view, pre_db, carried, loaded, idem>>
  /\ UNCHANGED <<clock, running, acl_deleted>>

\* zones_load_zone(zonedb, zone_name, source, filename) is called on its
\* own; the descriptor it is called for and the database are kept in conf
\* and db_new, and stable tells that it returned OK and that no file has
\* changed since.
LoadZone(zonedb, zone_name, filename) ==
  /\ pc = "idle"
  /\ zonedb \in DOMAIN dbs
  /\ ZoneIds \ DOMAIN zones # {}
  /\ LET r == zones_load_zone(zones, dbs[zonedb], zone_name, filename,
                              db_file[zone_name])
     IN /\ zones' = r.zones
        /\ dbs' = [dbs EXCEPT ![zonedb] = r.db]
        /\ ret' = r.ret
        /\ stable' = (r.ret = "KNOT_EOK")
  /\ conf' = <<[name |-> zone_name, db |-> filename, acl |-> NoRemotes]>>
  /\ db_new' = zonedb
  /\ UNCHANGED <<events, ns_zone_db, src_mtime, db_file, pc, idx, db_old,
                 inserted, rcu_nest, reader_db, reader_view, pre_db, carried,
                 loaded, idem>>
  /\ UNCHANGED <<clock, running, acl_deleted>>

\* The configurations whose zones have no remotes, and those of zone "a."
\* with a compiled file configured and with or without remotes (or of no
\* zone at all).
ConfsPlain ==
  { c \in Confs : \A k \in 1..Len(c) : c[k].acl = NoRemotes }
ConfsRemotes ==
  { c \in Confs : \A k \in 1..Len(c) : c[k].name = "a." /\ c[k].db # NoPath }

\* The configurations of zone "a." alone, with a master.
ConfsMaster ==
  { c \in ConfsRemotes :
      Len(c) = 1 /\ c[1].name = "a." /\ c[1].acl.xfr_in # << >> }

\* The steps of zones_update_db_from_config once it has begun.
Reload == InsertZone \/ Switch \/ RemoveZones \/ Return

\* The event thread of the scheduler.
Scheduler ==
  \/ \E e \in EventIds, create_ok \in BOOLEAN, sent \in BOOLEAN,
        id \in QueryIds : PollFire(e, create_ok, sent, id)
  \/ \E e \in EventIds : ExpireFire(e)

\* A query thread.
Reader == ReaderEnter \/ ReaderExit

\* The operator's work on the zone files.
Files ==
  \/ \E n \in EditedNames, t \in Mtimes : TouchSource(n, t)
  \/ \E n \in EditedNames, f \in DbFiles : WriteCompiled(n, f)

\* The whole server.
Next ==
  \/ \E c \in Confs, db_ok \in BOOLEAN : UpdateBegin(c, db_ok)
  \/ Reload
  \/ Scheduler
  \/ Reader
  \/ Files

Spec == Init /\ [][Next]_vars

\* Reloads and the scheduler: the zone has remotes or loses them or is
\* dropped, its files stay as they are.
NextSched ==
  \/ \E c \in ConfsRemotes, db_ok \in BOOLEAN : UpdateBegin(c, db_ok)
  \/ Reload
  \/ Scheduler

SpecSched == Init /\ [][NextSched]_vars

\* Reloads of one zone with a master on the reloader's thread, while the
\* event thread runs the callbacks; the reloader may take a turn of its loop
\* when the event thread has entered zones_axfrin_expire.
NextRace ==
  \/ \E c \in ConfsMaster, db_ok \in BOOLEAN : UpdateBegin(c, db_ok)
  \/ Reload
  \/ \E e \in EventIds, create_ok \in BOOLEAN, sent \in BOOLEAN,
        id \in QueryIds : PollFire(e, create_ok, sent, id)
  \/ \E e \in EventIds : ExpireEnter(e)
  \/ ExpireRun

SpecRace == Init /\ [][NextRace]_vars

\* One zone with a master, loaded once when the server starts, and its
\* timers followed on the clock.
ConfsTimeline == ConfsMaster
NextTimeline ==
  \/ /\ now = 0
     /\ DOMAIN events = {}
     /\ \E c \in ConfsTimeline, db_ok \in BOOLEAN : UpdateBegin(c, db_ok)
  \/ Reload
  \/ Elapse
  \/ \E e \in EventIds, create_ok \in BOOLEAN, sent \in BOOLEAN,
        id \in QueryIds : PollDue(e, create_ok, sent, id)
  \/ \E e \in EventIds : ExpireDue(e)

SpecTimeline == Init /\ [][NextTimeline]_vars

\* The same where every SOA query is created and sendto writes it whole or
\* fails, with a reload that goes on to its end and a scheduler that lets
\* time pass and runs every callback that is due.
PollsDue ==
  \E e \in EventIds, sent \in BOOLEAN, id \in QueryIds :
    PollDue(e, TRUE, sent, id)
ExpiresDue == \E e \in EventIds : ExpireDue(e)
NextExpiry ==
  \/ /\ now = 0
     /\ DOMAIN events = {}
     /\ \E c \in ConfsTimeline, db_ok \in BOOLEAN : UpdateBegin(c, db_ok)
  \/ Reload
  \/ Elapse
  \/ PollsDue
  \/ ExpiresDue

SpecExpiry ==
  /\ Init
  /\ [][NextExpiry]_vars
  /\ WF_vars(Reload)
  /\ WF_vars(Elapse)
  /\ WF_vars(PollsDue)
  /\ WF_vars(ExpiresDue)

\* Reloads while the operator edits the zone files: the zones have no
\* remotes, so that no timer is ever armed.
NextFiles ==
  \/ \E c \in ConfsPlain, db_ok \in BOOLEAN : UpdateBegin(c, db_ok)
  \/ Reload
  \/ Files

SpecFiles == Init /\ [][NextFiles]_vars

\* The Zone Loader alone: zones are loaded into the database the server
\* started with while the operator edits the files.
NextLoader ==
  \/ \E zonedb \in DbIds, zone_name \in ZoneNames, filename \in {NoPath, "db"} :
        LoadZone(zonedb, zone_name, filename)
  \/ Files

SpecLoader == Init /\ [][NextLoader]_vars

\* Reloads while a query thread reads the published database.
NextReaders ==
  \/ \E c \in ConfsPlain, db_ok \in BOOLEAN : UpdateBegin(c, db_ok)
  \/ Reload
  \/ Reader

SpecReaders == Init /\ [][NextReaders]_vars

\* --------------------------------------------------------------- properties
\* C1: every zone has at most one live POLL event and at most one live
\* EXPIRE event in the scheduler, whatever reloads and firings came before.
\* zones_timers_update stores the event it schedules over zone->xfr_in.timer
\* without cancelling the one that was there, so this does not hold.
C1_OneTimerOfEachKind ==
  \A z \in DOMAIN zones :
    /\ Cardinality(LiveEvents(events, z, "poll")) <= 1
    /\ Cardinality(LiveEvents(events, z, "expire")) <= 1

\* C2: a query thread inside its critical section gets from the database it
\* took the find_zone results it got when it entered.  zones_remove_zones
\* takes the configured names out of that database, so this does not hold.
C2_ReaderDbFrozen ==
  reader_db # NULL => \A n \in ZoneNames : dbs[reader_db][n] = reader_view[n]

\* C3: once the databases are exchanged, and until the configured names are
\* taken out of the old one, ns->zone_db is the new database and a name has
\* one and the same zone object in the old and in the new database exactly
\* when the reload carried it over.
C3_SharedIffCarried ==
  pc = "switched" =>
    /\ ns_zone_db = db_new
    /\ \A n \in ZoneNames :
         (dbs[db_old][n] # NULL /\ dbs[db_old][n] = dbs[db_new][n])
           <=> n \in carried

\* C3 as stated, at any time after the exchange: it fails once
\* zones_remove_zones has pruned the old database.
C3_SharedIffCarriedForGood ==
  pc \in {"switched", "done"} =>
    /\ ns_zone_db = db_new
    /\ \A n \in ZoneNames :
         (dbs[db_old][n] # NULL /\ dbs[db_old][n] = dbs[db_new][n])
           <=> n \in carried

\* A reload has exchanged the databases after carrying one zone over and
\* loading another one anew over its old object.
C3_Witness ==
  /\ pc = "switched"
  /\ carried # {}
  /\ \E n \in loaded : dbs[db_old][n] # NULL /\ dbs[db_new][n] # NULL

\* C4: when the reload has returned OK, every zone object of the database
\* as it was before the reload is in exactly one of the new database and
\* the old database handed back.  A configured name is taken out of the old
\* database even when its object did not go into the new one, so this does
\* not hold.
C4_OldObjectInOneDb ==
  (pc = "done" /\ ret = "KNOT_EOK") =>
    \A n \in ZoneNames :
      pre_db[n] # NULL =>
        (dbs[db_new][n] = pre_db[n]) # (dbs[db_old][n] = pre_db[n])

\* C5: a call that fails at lines 479-488 (no old database, or no new
\* database to be had) returns KNOT_ERROR and leaves ns->zone_db, every
\* database, every zone and every event as they were.
C5_FailedCallChangesNothing ==
  [][ (pc = "idle" /\ pc' = "idle" /\ rcu_nest' = rcu_nest + 1)
        => /\ ret' = "KNOT_ERROR"
           /\ UNCHANGED <<ns_zone_db, dbs, zones, events>> ]_vars

\* A call has failed while the published database held a zone with a timer
\* armed.
C5_Witness ==
  /\ pc = "idle"
  /\ ret = "KNOT_ERROR"
  /\ rcu_nest > 0
  /\ ns_zone_db # NULL
  /\ \E n \in ZoneNames :
       /\ dbs[ns_zone_db][n] # NULL
       /\ LiveEvents(events, dbs[ns_zone_db][n], "poll") # {}

\* C6: between reloads, a published zone whose configured xfr_in list is
\* empty has no POLL and no EXPIRE event live.  zones_timers_update returns
\* at line 184 before it cancels anything, so the timers of a carried-over
\* zone whose master was cleared stay, and this does not hold.
C6_NoMasterNoTimer ==
  (pc = "idle" /\ ns_zone_db # NULL) =>
    \A k \in 1..Len(conf) :
      (/\ conf[k].name \in ZoneNames
       /\ conf[k].acl.xfr_in = << >>
       /\ dbs[ns_zone_db][conf[k].name] # NULL)
        => /\ LiveEvents(events, dbs[ns_zone_db][conf[k].name], "poll") = {}
           /\ LiveEvents(events, dbs[ns_zone_db][conf[k].name], "expire") = {}
           /\ zones[dbs[ns_zone_db][conf[k].name]].timer = NULL
           /\ zones[dbs[ns_zone_db][conf[k].name]].expire = NULL

\* C7: after zones_insert_zones, every zone of the new database has its
\* master set exactly when its configured xfr_in list is not empty, and
\* then to the family, address and port of the list's head.
C7_MasterIsHeadOfXfrIn ==
  pc \in {"switched", "done"} =>
    \A k \in 1..Len(conf) :
      (conf[k].name \in ZoneNames /\ dbs[db_new][conf[k].name] # NULL) =>
        LET master == zones[dbs[db_new][conf[k].name]].master
            xfr_in == conf[k].acl.xfr_in
        IN /\ (master.ptr # NULL) <=> (xfr_in # << >>)
           /\ xfr_in # << >> =>
                /\ master.family = Head(xfr_in).family
                /\ master.address = Head(xfr_in).address
                /\ master.port = Head(xfr_in).port

\* A reload has carried over a zone whose list has two rules and whose
\* POLL event, armed for another master before, is live.
C7_Witness ==
  /\ pc = "done"
  /\ \E k \in 1..Len(conf) :
       /\ Len(conf[k].acl.xfr_in) = 2
       /\ conf[k].name \in carried
       /\ Cardinality(LiveEvents(events, dbs[db_new][conf[k].name],
                                  "poll")) > 1

\* C8: a zone object loaded over an older object of the same name has a
\* greater version than that one.  The reload is decided on the source
\* file's mtime and the version is taken from the compiled file's, so this
\* does not hold.
C8_VersionIncreases ==
  (pc = "done" /\ ret = "KNOT_EOK") =>
    \A n \in loaded :
      (pre_db[n] # NULL /\ dbs[db_new][n] # NULL) =>
        zones[dbs[db_new][n]].version > zones[pre_db[n]].version

\* C9: a turn of the loop calls zones_load_zone exactly when the name is
\* not in the old database or its source file's mtime is greater than the
\* zone's version; otherwise the new database gets the very object of the
\* old one and no zone object is made.
C9_ReloadIffAbsentOrStale ==
  [][ (pc = "insert" /\ idx' = idx + 1 /\ conf[idx].name \in ZoneNames) =>
        LET n == conf[idx].name
            zone == dbs[db_old][n]
            fresh == zone = NULL \/ src_mtime[n] > zones[zone].version
        IN /\ (n \in loaded') <=> fresh
           /\ ~fresh => /\ n \in carried'
                        /\ dbs'[db_new][n] = zone
                        /\ DOMAIN zones' = DOMAIN zones ]_vars

\* The loop has loaded one zone anew over its old object and has carried
\* over another one, whose source file is no newer than the zone.
C9_Witness ==
  /\ pc = "insert"
  /\ \E n \in loaded : pre_db[n] # NULL
  /\ \E n \in carried : src_mtime[n] <= zones[pre_db[n]].version

\* C10: a reload that repeats the one before it (the same configuration, no
\* file touched since that one began) publishes the names it found
\* published, each with the version it had.
C10_ReloadIdempotent ==
  (pc = "done" /\ idem /\ stable) =>
    \A n \in ZoneNames :
      /\ (dbs[ns_zone_db][n] = NULL) <=> (pre_db[n] = NULL)
      /\ pre_db[n] # NULL =>
           zones[dbs[ns_zone_db][n]].version = zones[pre_db[n]].version

\* A repeated reload is done: it has loaded a zone again, whose compiled
\* file is older than its source, and has carried over another.
C10_Witness ==
  /\ pc = "done"
  /\ idem
  /\ stable
  /\ \E n \in loaded : pre_db[n] # NULL
  /\ carried # {}

\* C11: with REFRESH 10 s, RETRY 5 s and EXPIRE 30 s and the timers armed at
\* t = 0, POLL runs at t = 10 and then every 5 s; from the first run on the
\* EXPIRE event is due at t = 40 and the POLL event 5 s after its last run;
\* EXPIRE runs at t = 40, after five runs of POLL as a retry (t = 15..35) or
\* six (the one due at t = 40 may come first), and leaves no event live, no
\* timer referenced and next_id = -1.
C11_Timeline ==
  /\ \A k \in 1..Len(log) :
       log[k].kind = "poll" => log[k].at = 10000 + 5000 * (k - 1)
  /\ \A k \in 1..Len(log) :
       log[k].kind = "expire" =>
         /\ k = Len(log)
         /\ log[k].at = 40000
         /\ k - 2 \in {5, 6}
         /\ DOMAIN events = {}
         /\ \A z \in DOMAIN zones :
              /\ zones[z].timer = NULL
              /\ zones[z].expire = NULL
              /\ zones[z].next_id = -1
  /\ (Len(log) > 0 /\ log[Len(log)].kind = "poll") =>
       \E p, x \in DOMAIN events :
         /\ events[p].kind = "poll"
         /\ now + events[p].ms = log[Len(log)].at + 5000
         /\ events[x].kind = "expire"
         /\ now + events[x].ms = 40000

\* C11 as stated: EXPIRE runs at t = 40 after three runs of POLL as a retry.
C11_ThreeRetries ==
  \A k \in 1..Len(log) :
    log[k].kind = "expire" => (log[k].at = 40000 /\ k - 2 = 3)

\* EXPIRE has run at t = 40, after POLL ran at t = 10 and five times more.
C11_Witness ==
  /\ Len(log) = 7
  /\ log[1].kind = "poll"
  /\ log[1].at = 10000
  /\ log[7].kind = "expire"
  /\ log[7].at = 40000

\* C12: after zones_insert_zones, each of the four ACLs of a zone of the
\* new database accepts exactly the addresses of the configured list that
\* resolve.  zones_insert_zones rebuilds xfr_out, notify_in and notify_out
\* and never xfr_in, so this does not hold.
C12_FourAclsRebuilt ==
  pc \in {"switched", "done"} =>
    \A k \in 1..Len(conf) :
      (conf[k].name \in ZoneNames /\ dbs[db_new][conf[k].name] # NULL) =>
        \A f \in {"xfr_in", "xfr_out", "notify_in", "notify_out"} :
          acl_accepts(zones[dbs[db_new][conf[k].name]].acl[f])
            = { conf[k].acl[f][j].address : j \in 1..Len(conf[k].acl[f]) }
                \cap Resolvable

\* C13: when every configured name converts to a domain name, the loop of
\* zones_insert_zones takes a turn for every configured zone whatever
\* failed before it (it loads or carries over each one), the new database
\* is published, and inserted is the number of zones in the new database.
C13_FailureDoesNotStopReload ==
  (pc = "switched" /\ \A k \in 1..Len(conf) : conf[k].name \in ZoneNames) =>
    /\ \A k \in 1..Len(conf) : conf[k].name \in loaded \cup carried
    /\ ns_zone_db = db_new
    /\ inserted = Cardinality({ n \in ZoneNames : dbs[db_new][n] # NULL })

\* The load of the first configured zone has failed, the second zone is in
\* the published new database.
C13_Witness ==
  /\ pc = "switched"
  /\ Len(conf) = 2
  /\ conf[1].name \in loaded
  /\ dbs[db_new][conf[1].name] = NULL
  /\ conf[2].name \in ZoneNames
  /\ dbs[db_new][conf[2].name] # NULL
  /\ ns_zone_db = db_new

\* C14: a step of the reloader never writes xfr_in.timer or xfr_in.expire
\* of a zone that has an event live in the scheduler, whose callback may
\* run at the same time.  zones_insert_zones calls zones_timers_update
\* itself, on the reloader's thread, so this does not hold.
C14_ReloaderLeavesTimerFields ==
  [][ (pc = "insert" /\ idx' # idx) =>
        \A z \in DOMAIN zones :
          (\E e \in DOMAIN events : events[e].data = z) =>
            /\ zones'[z].timer = zones[z].timer
            /\ zones'[z].expire = zones[z].expire ]_vars

\* C15: next_id is -1 for a zone that has no POLL timer, and for a zone
\* that a reload has just re-armed (POLL due after REFRESH, no EXPIRE
\* timer).  Only zones_axfrin_expire ever resets next_id, so this does not
\* hold for a zone that was carried over after a query had been sent.
C15_NextIdUnsetUnlessQueried ==
  \A z \in DOMAIN zones :
    /\ zones[z].timer = NULL => zones[z].next_id = -1
    /\ (/\ zones[z].timer \in DOMAIN events
        /\ events[zones[z].timer].ms = zones_soa_refresh(zones[z])
        /\ zones[z].expire = NULL)
         => zones[z].next_id = -1

\* C16: when zones_update_db_from_config has returned OK, every event live
\* in the scheduler belongs to a zone of the published database.  Nothing
\* cancels the timers of a zone that the reload drops or replaces, so this
\* does not hold.
C16_NoEventOfUnpublishedZone ==
  (pc = "done" /\ ret = "KNOT_EOK") =>
    \A e \in DOMAIN events :
      \E n \in ZoneNames : dbs[ns_zone_db][n] = events[e].data

\* C17: a run of zones_axfrin_poll arms an EXPIRE event, due after the
\* SOA's EXPIRE, exactly when the zone has none; when it has one, the run
\* leaves that event as it is.  No step ever moves the time at which a live
\* EXPIRE event is due.
C17_ExpireArmedOnce ==
  [][ /\ (Len(log') = Len(log) + 1 /\ log'[Len(log')].kind = "poll") =>
           LET z == events[log'[Len(log')].e].data
               old == LiveEvents(events, z, "expire")
               new == LiveEvents(events', z, "expire")
           IN IF old = {}
              THEN /\ Cardinality(new) = 1
                   /\ zones'[z].expire \in new
                   /\ \A x \in new :
                        events'[x].ms = zones_soa_expire(zones[z])
              ELSE /\ new = old
                   /\ zones'[z].expire = zones[z].expire
                   /\ \A x \in old : events'[x] = events[x]
      /\ \A x \in DOMAIN events \cap DOMAIN events' :
           (events[x].kind = "expire" /\ events'[x].kind = "expire") =>
             now' + events'[x].ms = now + events[x].ms ]_vars

\* POLL has run twice and time has passed since: the EXPIRE event armed by
\* the first run is live and due at t = 40.
C17_Witness ==
  /\ Len(log) = 2
  /\ log[2].kind = "poll"
  /\ now > log[2].at
  /\ \E x \in DOMAIN events :
       events[x].kind = "expire" /\ now + events[x].ms = 40000

\* C18: every run of zones_axfrin_poll leaves the event it ran for live, a
\* POLL event of the same zone due after the SOA's RETRY, and leaves
\* next_id as it was unless the query was created, an interface of the
\* master's family exists and sendto wrote the whole query; then next_id is
\* the query's wire ID.
C18_PollAlwaysRetries ==
  [][ (Len(log') = Len(log) + 1 /\ log'[Len(log')].kind = "poll") =>
        LET r == log'[Len(log')]
            z == events[r.e].data
            full == /\ r.create_ok
                    /\ zones[z].ifaces # NULL
                    /\ poll_socket(ServerIfaces, zones[z].master) > -1
                    /\ r.sent
        IN /\ r.e \in DOMAIN events'
           /\ events'[r.e].kind = "poll"
           /\ events'[r.e].data = z
           /\ events'[r.e].ms = ZoneSoa(zones[z].name).retry * 1000
           /\ zones'[z].timer = r.e
           /\ zones'[z].next_id = IF full THEN r.id ELSE zones[z].next_id
     ]_vars

\* Two runs of POLL: the first sent its query, the second could not create
\* one; the zone still awaits the first answer and its POLL event is due
\* after RETRY.
C18_Witness ==
  /\ Len(log) = 2
  /\ log[1].create_ok /\ log[1].sent
  /\ ~log[2].create_ok
  /\ log[2].e \in DOMAIN events
  /\ events[log[2].e].ms = 5000
  /\ zones[events[log[2].e].data].next_id = log[1].id

\* C19: when zones_axfrin_expire has run for a zone (an EXPIRE event leaves
\* the scheduler in a step of the event thread), the zone references no
\* timer, its next_id is -1 and no POLL or EXPIRE event of the zone is
\* live.  The handler cancels the POLL event the zone references only, so
\* this does not hold when a reload has left an older POLL event behind.
C19_ExpireEndsAllTimers ==
  [][ (pc' = pc /\ idx' = idx) =>
        \A e \in (DOMAIN events) \ (DOMAIN events') :
          events[e].kind = "expire" =>
            LET z == events[e].data
            IN /\ zones'[z].timer = NULL
               /\ zones'[z].expire = NULL
               /\ zones'[z].next_id = -1
               /\ LiveEvents(events', z, "poll") = {}
               /\ LiveEvents(events', z, "expire") = {} ]_vars

\* C20: a turn of the loop of zones_insert_zones for a zone with a
\* configured master leaves the zone with exactly one POLL event live, the
\* one it references, due after the SOA's REFRESH, and with no EXPIRE
\* event live or referenced.  The POLL event the zone had before the turn
\* is not cancelled, so this does not hold for a carried-over zone.
C20_TimersUpdateLeavesRefreshing ==
  [][ (/\ pc = "insert"
       /\ idx' = idx + 1
       /\ conf[idx].name \in ZoneNames
       /\ conf[idx].acl.xfr_in # << >>
       /\ dbs'[db_new][conf[idx].name] # NULL) =>
        LET z == dbs'[db_new][conf[idx].name]
        IN /\ zones'[z].timer \in DOMAIN events'
           /\ events'[zones'[z].timer].kind = "poll"
           /\ events'[zones'[z].timer].data = z
           /\ events'[zones'[z].timer].ms = zones_soa_refresh(zones'[z])
           /\ zones'[z].expire = NULL
           /\ LiveEvents(events', z, "expire") = {}
           /\ LiveEvents(events', z, "poll") = {zones'[z].timer} ]_vars

\* C21: no event is cancelled or freed twice.  What a zone references as
\* its POLL or EXPIRE timer is an event of that kind and of that zone live
\* in the scheduler, so that every cancel behind a non-null reference hits a
\* live event; a step that takes an event out of the scheduler leaves no
\* zone referencing it; and the event zones_axfrin_expire frees as itself
\* (line 91) is still live when it does.  zones_timers_update runs on the
\* reloader's thread: it cancels and frees the EXPIRE event (lines 193-196)
\* whose callback the event thread has entered, and the callback then frees
\* the event again, so this does not hold.
C21_EventFreedOnce ==
  [][ /\ \A z \in DOMAIN zones :
           /\ zones[z].timer # NULL =>
                /\ zones[z].timer \in DOMAIN events
                /\ events[zones[z].timer].kind = "poll"
                /\ events[zones[z].timer].data = z
           /\ zones[z].expire # NULL =>
                /\ zones[z].expire \in DOMAIN events
                /\ events[zones[z].expire].kind = "expire"
                /\ events[zones[z].expire].data = z
      /\ \A e \in (DOMAIN events) \ (DOMAIN events') :
           \A z \in DOMAIN zones' :
             zones'[z].timer # e /\ zones'[z].expire # e
      /\ (running # NoRun /\ running' = NoRun) =>
           /\ running.e \in DOMAIN events
           /\ events[running.e].kind = "expire"
           /\ events[running.e].data = running.zone ]_vars

\* C22: zones_load_zone returns KNOT_EINVAL when filename is NULL, and
\* KNOT_EZONEINVAL when the compiled file cannot be opened or decoded or
\* when the database has a zone of the name already; a call that fails
\* leaves the database and the zones as they were (the decoded zone is
\* freed).  Every other call returns KNOT_EOK, whether or not the compiled
\* file is older than its source, and puts one new zone under the name,
\* with the compiled file's mtime as its version.
C22_LoaderOutcomes ==
  [][ UNCHANGED <<src_mtime, db_file>> =>
        LET n == conf'[1].name
            path == conf'[1].db
            file == db_file[n]
            d == db_new'
            expected == IF path = NoPath THEN "KNOT_EINVAL"
                        ELSE IF file.state # "ok" \/ dbs[d][n] # NULL
                             THEN "KNOT_EZONEINVAL"
                             ELSE "KNOT_EOK"
        IN /\ ret' = expected
           /\ expected # "KNOT_EOK" => (dbs' = dbs /\ zones' = zones)
           /\ expected = "KNOT_EOK" =>
                /\ dbs'[d][n] \in (DOMAIN zones') \ (DOMAIN zones)
                /\ DOMAIN zones' = (DOMAIN zones) \cup {dbs'[d][n]}
                /\ zones'[dbs'[d][n]].name = n
                /\ zones'[dbs'[d][n]].version = file.mtime
                /\ \A m \in ZoneNames \ {n} : dbs'[d][m] = dbs[d][m]
                /\ \A z \in DOMAIN zones : zones'[z] = zones[z] ]_vars

\* A zone has just been loaded from a compiled file that is older than its
\* source, into a database that holds another zone.
C22_Witness ==
  /\ pc = "idle"
  /\ stable
  /\ ret = "KNOT_EOK"
  /\ Len(conf) = 1
  /\ db_file[conf[1].name].mtime < src_mtime[conf[1].name]
  /\ db_new \in DOMAIN dbs
  /\ dbs[db_new][conf[1].name] # NULL
  /\ zones[dbs[db_new][conf[1].name]].version = db_file[conf[1].name].mtime
  /\ \E m \in ZoneNames \ {conf[1].name} : dbs[db_new][m] # NULL

\* C23: a zone with an EXPIRE event live in the scheduler has a POLL event
\* live as well, and xfr_in.timer references it.  After a reload has left
\* an older POLL event behind, zones_axfrin_expire cancels the newer one
\* and nulls xfr_in.timer; the older one then arms EXPIRE again, so this
\* does not hold.
C23_ExpireOnlyWithPoll ==
  \A z \in DOMAIN zones :
    LiveEvents(events, z, "expire") # {} =>
      /\ zones[z].timer \in LiveEvents(events, z, "poll")
      /\ zones[z].expire \in LiveEvents(events, z, "expire")

\* C24: whenever zones_update_db_from_config has returned, the reloader is
\* in no read-side critical section.  The returns at lines 481, 487 and 518
\* come before the rcu_read_unlock of line 522, so this does not hold.
C24_RcuLockBalanced ==
  pc \in {"idle", "done"} => rcu_nest = 0

\* C25: no step frees a zone that a query thread inside its critical
\* section got from the database it took, nor an ACL of such a zone.
\* zones_set_acl deletes the ACLs of a carried-over zone (line 217) while
\* the database the thread reads still holds the zone, before the exchange
\* and with no grace period, so this does not hold.
C25_ReaderPointersStayValid ==
  [][ \A n \in ZoneNames :
        reader_view[n] # NULL =>
          /\ reader_view[n] \in DOMAIN zones'
          /\ reader_view[n] \notin acl_deleted' \ acl_deleted ]_vars

\* C26: once zones_timers_update has armed the POLL timer of a zone with a
\* master, and no reload touches the zone again, POLL runs, EXPIRE runs,
\* and from then on no event is live and the zone references no timer: the
\* retries come to an end.
C26_ExpiryReached ==
  (\E z \in DOMAIN zones :
     zones[z].master.ptr # NULL /\ zones[z].timer \in DOMAIN events)
    ~> [](/\ Len(log) > 1
          /\ log[1].kind = "poll"
          /\ log[Len(log)].kind = "expire"
          /\ DOMAIN events = {}
          /\ \A z \in DOMAIN zones :
               zones[z].timer = NULL /\ zones[z].expire = NULL)

\* The zone has expired: EXPIRE has run after POLL and its retries, and
\* nothing is left in the scheduler.
C26_Witness ==
  /\ Len(log) > 2
  /\ log[1].kind = "poll"
  /\ log[2].kind = "poll"
  /\ log[Len(log)].kind = "expire"
  /\ DOMAIN events = {}
  /\ \E z \in DOMAIN zones :
       zones[z].master.ptr # NULL /\ zones[z].timer = NULL

====
